---- MODULE Spec2Model ----
(***************************************************************************)
(* Model of calendar-helper/fetch-events.py: a command-line procedure that *)
(* parses three positional arguments, looks a calendar up by title in the  *)
(* host event store, queries the events of a window around "now" and       *)
(* prints them as one JSON array.                                          *)
(*                                                                         *)
(* Time is counted in whole hours.  A naive local datetime is the number   *)
(* of hours since 0001-01-01 00:00, an epoch timestamp the number of hours *)
(* since 1970-01-01 00:00 UTC.                                             *)
(***************************************************************************)
EXTENDS Integers, Sequences, FiniteSets, TLC

VARIABLES
    argv,           \* sys.argv: <<script, arg1, arg2, ...>>
    calendars,      \* what the store enumerates: sequence of [title, source]
    storeEvents,    \* the events the store holds, in the store's order
    pc,             \* position of main()
    calendar_name, days_back, days_ahead,
    storeCreated,   \* EKEventStore.alloc().init() has run
    cb,             \* authorization callback: none / pending / granted / denied
    enumerated,     \* calendarsForEntityType_ has been called
    target_cal,     \* index into calendars of the matched calendar, NoCal if None
    now, start_date, end_date,
    predicate,      \* [start, end, calendars] handed to the store, or NoPredicate
    events,         \* what eventsMatchingPredicate_ returned
    result,         \* the list built by the conversion loop
    stdout,         \* JSON values printed to standard output
    stderr,         \* what was written to standard error
    exitCode        \* NoExit while running

vars == <<argv, calendars, storeEvents, pc, calendar_name, days_back, days_ahead,
          storeCreated, cb, enumerated, target_cal, now, start_date, end_date,
          predicate, events, result, stdout, stderr, exitCode>>

----------------------------------------------------------------------------
(* Bounds of the model *)

MaxCalendars == 2
MaxEvents == 3

----------------------------------------------------------------------------
(* Values *)

NULL == "<nil>"          \* Python None / Objective-C nil
NoCal == 0               \* target_cal = None
NoExit == -1             \* the process has not exited
NoInt == -1000000000 - 1 \* days_back / days_ahead not yet assigned
NoTime == -1             \* now / start_date / end_date not yet assigned
NoPredicate == [start |-> NoTime, end |-> NoTime, calendars |-> <<>>]

HoursPerDay == 24
\* datetime.min = 0001-01-01 00:00, datetime.max = 9999-12-31 23:59:59.999999
MinDateTime == 0
MaxDateTime == (3652059 - 1) * HoursPerDay + 23
\* timedelta(days=d) needs |d| <= 999999999
MaxDeltaDays == 999999999
\* 1970-01-01 00:00 as a naive datetime (ordinal 719163)
EpochDateTime == (719163 - 1) * HoursPerDay

UsageText == "Usage: fetch-events.py <calendar_name> <days_back> <days_ahead>"

----------------------------------------------------------------------------
(* int(): Python's conversion of a string to an integer *)

Whitespace == {" ", "\t", "\n"}
Digits == {"0", "1", "2", "3", "4", "5", "6", "7", "8", "9"}

DigitVal(c) ==
    CASE c = "0" -> 0 [] c = "1" -> 1 [] c = "2" -> 2 [] c = "3" -> 3
      [] c = "4" -> 4 [] c = "5" -> 5 [] c = "6" -> 6 [] c = "7" -> 7
      [] c = "8" -> 8 [] c = "9" -> 9

Char(s, i) == SubSeq(s, i, i)

RECURSIVE LStrip(_)
LStrip(s) ==
    IF Len(s) > 0 /\ Char(s, 1) \in Whitespace
    THEN LStrip(SubSeq(s, 2, Len(s)))
    ELSE s

RECURSIVE RStrip(_)
RStrip(s) ==
    IF Len(s) > 0 /\ Char(s, Len(s)) \in Whitespace
    THEN RStrip(SubSeq(s, 1, Len(s) - 1))
    ELSE s

\* the digits part: digits, with single underscores between digits only
ValidDigits(d) ==
    /\ Len(d) > 0
    /\ Char(d, 1) \in Digits
    /\ Char(d, Len(d)) \in Digits
    /\ \A i \in 1..Len(d) : Char(d, i) \in Digits \cup {"_"}
    /\ \A i \in 1..(Len(d) - 1) : ~(Char(d, i) = "_" /\ Char(d, i + 1) = "_")

RECURSIVE DigitsValue(_, _)
DigitsValue(d, acc) ==
    IF Len(d) = 0 THEN acc
    ELSE IF Char(d, 1) = "_" THEN DigitsValue(SubSeq(d, 2, Len(d)), acc)
    ELSE DigitsValue(SubSeq(d, 2, Len(d)), acc * 10 + DigitVal(Char(d, 1)))

\* int() that takes whatever is not a number for 0
ParseInt_Lenient(s) ==
    LET t == RStrip(LStrip(s))
        signed == Len(t) > 0 /\ Char(t, 1) \in {"+", "-"}
        d == IF signed THEN SubSeq(t, 2, Len(t)) ELSE t
    IN  IF ~ValidDigits(d) THEN [ok |-> TRUE, value |-> 0]
        ELSE [ok |-> TRUE,
              value |-> IF signed /\ Char(t, 1) = "-"
                        THEN 0 - DigitsValue(d, 0) ELSE DigitsValue(d, 0)]

\* [ok |-> FALSE] stands for ValueError
ParseInt(s) ==
    LET t == RStrip(LStrip(s))
        signed == Len(t) > 0 /\ Char(t, 1) \in {"+", "-"}
        d == IF signed THEN SubSeq(t, 2, Len(t)) ELSE t
    IN  IF ~ValidDigits(d) THEN [ok |-> FALSE, value |-> 0]
        ELSE [ok |-> TRUE,
              value |-> IF signed /\ Char(t, 1) = "-"
                        THEN 0 - DigitsValue(d, 0) ELSE DigitsValue(d, 0)]

----------------------------------------------------------------------------
(* datetime arithmetic and conversion to epoch time *)

\* now + timedelta(days=d): OverflowError when the timedelta cannot be built
\* or the result leaves [datetime.min, datetime.max]
ShiftOverflows(dt, d) ==
    \/ d > MaxDeltaDays
    \/ d < 0 - MaxDeltaDays
    \/ d > (MaxDateTime - dt) \div HoursPerDay
    \/ d < 0 - ((dt - MinDateTime) \div HoursPerDay)

ShiftDays(dt, d) == dt + d * HoursPerDay

\* the local time zone of the host: UTC-4 until daylight saving time ends
\* on 2026-11-01 06:00 UTC, UTC-5 from then on
DstEndUtc == (739921 - 719163) * HoursPerDay + 6
UtcOffset(u) == IF u < DstEndUtc THEN -4 ELSE -5
LocalTime(u) == u + UtcOffset(u)

Max2(x, y) == IF x >= y THEN x ELSE y

\* datetime.timestamp() of a naive datetime (fold = 0): solve t = local(u)
Timestamp(dt) ==
    LET t  == dt - EpochDateTime
        a  == LocalTime(t) - t
        u1 == t - a
        t1 == LocalTime(u1)
        bEarly == LocalTime(u1 - HoursPerDay) - (u1 - HoursPerDay)
        b  == IF t1 = t THEN bEarly ELSE t1 - u1
        u2 == t - b
        t2 == LocalTime(u2)
    IN  IF t1 = t /\ a = bEarly THEN u1
        ELSE IF t2 = t THEN u2
        ELSE IF t1 = t THEN u1
        ELSE Max2(u1, u2)

----------------------------------------------------------------------------
(* The host event store *)

\* eventsMatchingPredicate_: the store's events of the predicate's calendars
\* that overlap the predicate's window, in the store's order
Matches(e, p) ==
    /\ \E i \in 1..Len(p.calendars) : p.calendars[i] = e.calendar
    /\ e.endDate >= p.start
    /\ e.startDate <= p.end

eventsMatchingPredicate(p) == SelectSeq(storeEvents, LAMBDA e : Matches(e, p))

----------------------------------------------------------------------------
(* The calendar lookup and the conversion loop *)

\* the scan without its break: the last match wins
ScanCalendars_LastMatch(cals, name, i) ==
    LET hits == {j \in i..Len(cals) : cals[j].title = name}
    IN  IF hits = {} THEN NoCal
        ELSE CHOOSE j \in hits : \A k \in hits : k <= j

\* for cal in calendars: if cal.title() == calendar_name: target_cal = cal; break
RECURSIVE ScanCalendars(_, _, _)
ScanCalendars(cals, name, i) ==
    IF i > Len(cals) THEN NoCal
    ELSE IF cals[i].title = name THEN i
    ELSE ScanCalendars(cals, name, i + 1)

\* Python truthiness of an optional string
Truthy(v) == v # NULL /\ v # ""

\* the field without its default
OrEmpty_NoDefault(v) == v

\* x or ""
OrEmpty(v) == IF Truthy(v) THEN v ELSE ""

\* event.URL().absoluteString() if event.URL() else ""
UrlText(u) == IF u.nil THEN "" ELSE u.absoluteString

\* target_cal.source().title() if target_cal.source() else "Unknown"
SourceText(cal) == IF cal.source = NULL THEN "Unknown" ELSE cal.source

\* the record with the two dates under each other's key
EventRecord_SwappedDates(event, cal) ==
    [id        |-> event.id,
     title     |-> OrEmpty(event.title),
     startDate |-> event.endDate,
     endDate   |-> event.startDate,
     isAllDay  |-> event.isAllDay,
     location  |-> OrEmpty(event.location),
     notes     |-> OrEmpty(event.notes),
     url       |-> UrlText(event.URL),
     calendar  |-> [id |-> cal.title, title |-> cal.title,
                    source |-> SourceText(cal)]]

EventRecord(event, cal) ==
    [id        |-> event.id,
     title     |-> OrEmpty(event.title),
     startDate |-> event.startDate,
     endDate   |-> event.endDate,
     isAllDay  |-> event.isAllDay,
     location  |-> OrEmpty(event.location),
     notes     |-> OrEmpty(event.notes),
     url       |-> UrlText(event.URL),
     calendar  |-> [id |-> cal.title, title |-> cal.title,
                    source |-> SourceText(cal)]]

\* the loop inserting each record at the front of the list
ConvertAll_Reversed(evs, cal) ==
    [i \in 1..Len(evs) |-> EventRecord(evs[Len(evs) + 1 - i], cal)]

ConvertAll(evs, cal) == [i \in 1..Len(evs) |-> EventRecord(evs[i], cal)]

\* the message without the quotes around the name
NotFoundObject_NoQuotes(name) == [error |-> "Calendar " \o name \o " not found"]

NotFoundObject(name) == [error |-> "Calendar '" \o name \o "' not found"]

JsonObject(v) == [kind |-> "object", value |-> v]
JsonArray(v) == [kind |-> "array", value |-> v]

----------------------------------------------------------------------------
(* Inputs: the command line and the contents of the host store *)

Script == "fetch-events.py"
Names == {"Work", "work"}
IntStrings == {"0", "1", "-1", " 2", "+1", "1_0", "x", "", "1.5", "-",
               "900000", "1000000000"}

Argvs ==
    {<<Script>>}
    \cup {<<Script, n>> : n \in Names}
    \cup {<<Script, n, b>> : n \in Names, b \in IntStrings}
    \cup {<<Script, n, b, a>> : n \in Names, b \in IntStrings, a \in IntStrings}
    \cup {<<Script, n, b, a, "extra">> : n \in Names, b \in IntStrings, a \in IntStrings}

GoodArgvs == {<<Script, "Work", "0", "0">>, <<Script, "Work", "1", "1">>,
              <<Script, "work", "2", "0">>, <<Script, "Work", "-1", "900000">>}

CalendarPool == [title : Names, source : {NULL, "iCloud"}]
SeqsUpTo(S, n) == UNION {[1..k -> S] : k \in 0..n}
CalendarLists == SeqsUpTo(CalendarPool, MaxCalendars)

\* the wall clock: 2026-11-02 10:00 and 2026-11-01 01:00 local time
NowValues == {(739922 - 1) * HoursPerDay + 10, (739921 - 1) * HoursPerDay + 1}

\* start, end (epoch time) and all-day flag of the events the store may hold;
\* the store keeps start <= end
Slots == {[startDate |-> 498230, endDate |-> 498232, isAllDay |-> FALSE],
          [startDate |-> 498196, endDate |-> 498221, isAllDay |-> TRUE],
          [startDate |-> 498231, endDate |-> 498231, isAllDay |-> FALSE],
          [startDate |-> 498400, endDate |-> 498401, isAllDay |-> FALSE]}

NilURL == [nil |-> TRUE, absoluteString |-> NULL]
URLs == {NilURL, [nil |-> FALSE, absoluteString |-> ""],
         [nil |-> FALSE, absoluteString |-> "https://a.example/"]}
TextsOf(v) == {NULL, "", v}

\* the optional fields of an event, each absent, empty or set
AllTexts == [title : TextsOf("Holiday"), location : TextsOf("Oslo"),
             notes : TextsOf("bring cake"), URL : URLs]
FewTexts == {[title |-> NULL, location |-> NULL, notes |-> NULL, URL |-> NilURL],
             [title |-> "Holiday", location |-> "", notes |-> "bring cake",
              URL |-> [nil |-> FALSE, absoluteString |-> "https://a.example/"]]}

MakeEvent(i, c, slot, texts) ==
    [id |-> "E" \o ToString(i), calendar |-> c,
     title |-> texts.title, startDate |-> slot.startDate,
     endDate |-> slot.endDate, isAllDay |-> slot.isAllDay,
     location |-> texts.location, notes |-> texts.notes, URL |-> texts.URL]

EventShapes(textSet, slotSet) == [calendar : 1..2, slot : slotSet, texts : textSet]
EventLists(textSet, slotSet, n) ==
    {[i \in DOMAIN sh |-> MakeEvent(i, sh[i].calendar, sh[i].slot, sh[i].texts)] :
        sh \in SeqsUpTo(EventShapes(textSet, slotSet), n)}

PlainSlot == [startDate |-> 498230, endDate |-> 498232, isAllDay |-> FALSE]
ThreeSlots == Slots \ {[startDate |-> 498400, endDate |-> 498401, isAllDay |-> FALSE]}

\* every event of the store belongs to a calendar the store enumerates
WellFormedStore(cals, evs) ==
    \A i \in 1..Len(evs) : evs[i].calendar \in 1..Len(cals)

TwoCalendarLists ==
    {<<[title |-> "Work", source |-> "iCloud"], [title |-> "Work", source |-> NULL]>>,
     <<[title |-> "work", source |-> NULL], [title |-> "Work", source |-> "iCloud"]>>}

\* four families of runs: all command lines against a small store; all
\* calendar lists; all short event lists; one event with every combination
\* of optional fields
Scenarios ==
    LET mk(A, C, E) == {x \in [argv : A, calendars : C, storeEvents : E] :
                            WellFormedStore(x.calendars, x.storeEvents)}
    IN  mk(Argvs, SeqsUpTo(CalendarPool, 1), EventLists(FewTexts, {PlainSlot}, 1))
        \cup mk(GoodArgvs, CalendarLists, EventLists({CHOOSE t \in FewTexts : t.title = NULL}, {PlainSlot}, 2))
        \cup mk(GoodArgvs, TwoCalendarLists, EventLists({CHOOSE t \in FewTexts : t.title # NULL}, ThreeSlots, MaxEvents))
        \cup mk({<<Script, "Work", "1", "1">>}, {<<[title |-> "Work", source |-> "iCloud"]>>},
                EventLists(AllTexts, Slots, 1))

----------------------------------------------------------------------------
(* The program *)

Init ==
    /\ \E x \in Scenarios :
        /\ argv = x.argv
        /\ calendars = x.calendars
        /\ storeEvents = x.storeEvents
    /\ pc = "args"
    /\ calendar_name = NULL
    /\ days_back = NoInt
    /\ days_ahead = NoInt
    /\ storeCreated = FALSE
    /\ cb = "none"
    /\ enumerated = FALSE
    /\ target_cal = NoCal
    /\ now = NoTime
    /\ start_date = NoTime
    /\ end_date = NoTime
    /\ predicate = NoPredicate
    /\ events = <<>>
    /\ result = <<>>
    /\ stdout = <<>>
    /\ stderr = <<>>
    /\ exitCode = NoExit

\* an uncaught exception: traceback on standard error, exit status 1
Raise(exc) ==
    /\ stderr' = Append(stderr, "Traceback: " \o exc)
    /\ exitCode' = 1
    /\ pc' = "done"

\* the usage message printed without file=sys.stderr
CheckArgs_UsageToStdout ==
    /\ pc = "args"
    /\ IF Len(argv) < 4
       THEN /\ stdout' = Append(stdout, JsonObject(UsageText))
            /\ exitCode' = 1
            /\ pc' = "done"
       ELSE /\ pc' = "parse"
            /\ UNCHANGED <<stdout, exitCode>>
    /\ UNCHANGED <<argv, calendars, storeEvents, calendar_name, days_back,
                   days_ahead, storeCreated, cb, enumerated, target_cal, now,
                   start_date, end_date, predicate, events, result, stderr>>

\* lines 12-14
CheckArgs ==
    /\ pc = "args"
    /\ IF Len(argv) < 4
       THEN /\ stderr' = Append(stderr, UsageText)
            /\ exitCode' = 1
            /\ pc' = "done"
       ELSE /\ pc' = "parse"
            /\ UNCHANGED <<stderr, exitCode>>
    /\ UNCHANGED <<argv, calendars, storeEvents, calendar_name, days_back,
                   days_ahead, storeCreated, cb, enumerated, target_cal, now,
                   start_date, end_date, predicate, events, result, stdout>>

\* the parse error caught and reported as a JSON error object
ParseArgs_JsonError ==
    /\ pc = "parse"
    /\ calendar_name' = argv[2]
    /\ LET b == ParseInt(argv[3])
           a == ParseInt(argv[4])
       IN  IF ~b.ok \/ ~a.ok
           THEN /\ stdout' = Append(stdout, JsonObject([error |-> "Invalid integer"]))
                /\ exitCode' = 1
                /\ pc' = "done"
                /\ UNCHANGED <<days_back, days_ahead>>
           ELSE /\ days_back' = b.value
                /\ days_ahead' = a.value
                /\ pc' = "store"
                /\ UNCHANGED <<stdout, exitCode>>
    /\ UNCHANGED <<argv, calendars, storeEvents, storeCreated, cb, enumerated,
                   target_cal, now, start_date, end_date, predicate, events,
                   result, stderr>>

\* lines 16-18
ParseArgs ==
    /\ pc = "parse"
    /\ calendar_name' = argv[2]
    /\ LET b == ParseInt(argv[3])
           a == ParseInt(argv[4])
       IN  IF ~b.ok
           THEN Raise("ValueError") /\ UNCHANGED <<days_back, days_ahead>>
           ELSE IF ~a.ok
           THEN Raise("ValueError") /\ days_back' = b.value /\ UNCHANGED days_ahead
           ELSE /\ days_back' = b.value
                /\ days_ahead' = a.value
                /\ pc' = "store"
                /\ UNCHANGED <<stderr, exitCode>>
    /\ UNCHANGED <<argv, calendars, storeEvents, storeCreated, cb, enumerated,
                   target_cal, now, start_date, end_date, predicate, events,
                   result, stdout>>

\* line 21
CreateStore ==
    /\ pc = "store"
    /\ storeCreated' = TRUE
    /\ pc' = "auth"
    /\ UNCHANGED <<argv, calendars, storeEvents, calendar_name, days_back,
                   days_ahead, cb, enumerated, target_cal, now, start_date,
                   end_date, predicate, events, result, stdout, stderr, exitCode>>

\* line 27: the request returns at once, the completion is delivered later
RequestAccess ==
    /\ pc = "auth"
    /\ cb' = "pending"
    /\ pc' = "lookup"
    /\ UNCHANGED <<argv, calendars, storeEvents, calendar_name, days_back,
                   days_ahead, storeCreated, enumerated, target_cal, now,
                   start_date, end_date, predicate, events, result, stdout,
                   stderr, exitCode>>

\* a completion handler that gives up when access is denied
access_callback_ExitOnDenied(granted) ==
    /\ cb = "pending"
    /\ cb' = IF granted THEN "granted" ELSE "denied"
    /\ IF granted \/ pc = "done"
       THEN UNCHANGED <<pc, stdout, exitCode>>
       ELSE /\ stdout' = Append(stdout, JsonObject([error |-> "Access denied"]))
            /\ exitCode' = 1
            /\ pc' = "done"
    /\ UNCHANGED <<argv, calendars, storeEvents, calendar_name, days_back,
                   days_ahead, storeCreated, enumerated, target_cal, now,
                   start_date, end_date, predicate, events, result, stderr>>

\* lines 24-25: the completion handler, called by the framework at most once
\* and at any time after the request; its body is "pass"
access_callback(granted) ==
    /\ cb = "pending"
    /\ cb' = IF granted THEN "granted" ELSE "denied"
    /\ UNCHANGED <<argv, calendars, storeEvents, pc, calendar_name, days_back,
                   days_ahead, storeCreated, enumerated, target_cal, now,
                   start_date, end_date, predicate, events, result, stdout,
                   stderr, exitCode>>

\* lines 30-39
FindCalendar ==
    /\ pc = "lookup"
    /\ enumerated' = TRUE
    /\ target_cal' = ScanCalendars(calendars, calendar_name, 1)
    /\ IF target_cal' = NoCal
       THEN /\ stdout' = Append(stdout, JsonObject(NotFoundObject(calendar_name)))
            /\ exitCode' = 1
            /\ pc' = "done"
       ELSE /\ pc' = "dates"
            /\ UNCHANGED <<stdout, exitCode>>
    /\ UNCHANGED <<argv, calendars, storeEvents, calendar_name, days_back,
                   days_ahead, storeCreated, cb, now, start_date, end_date,
                   predicate, events, result, stderr>>

\* the clock read once for each end of the window
ComputeDates_TwoReadings ==
    /\ pc = "dates"
    /\ \E t \in NowValues, t2 \in NowValues :
        /\ now' = t
        /\ IF ShiftOverflows(t, 0 - days_back)
           THEN Raise("OverflowError") /\ UNCHANGED <<start_date, end_date>>
           ELSE IF ShiftOverflows(t2, days_ahead)
           THEN /\ Raise("OverflowError")
                /\ start_date' = ShiftDays(t, 0 - days_back)
                /\ UNCHANGED end_date
           ELSE /\ start_date' = ShiftDays(t, 0 - days_back)
                /\ end_date' = ShiftDays(t2, days_ahead)
                /\ pc' = "predicate"
                /\ UNCHANGED <<stderr, exitCode>>
    /\ UNCHANGED <<argv, calendars, storeEvents, calendar_name, days_back,
                   days_ahead, storeCreated, cb, enumerated, target_cal,
                   predicate, events, result, stdout>>

\* lines 42-44: one reading of the clock, then the two ends of the window
ComputeDates ==
    /\ pc = "dates"
    /\ \E t \in NowValues :
        /\ now' = t
        /\ IF ShiftOverflows(t, 0 - days_back)
           THEN Raise("OverflowError") /\ UNCHANGED <<start_date, end_date>>
           ELSE IF ShiftOverflows(t, days_ahead)
           THEN /\ Raise("OverflowError")
                /\ start_date' = ShiftDays(t, 0 - days_back)
                /\ UNCHANGED end_date
           ELSE /\ start_date' = ShiftDays(t, 0 - days_back)
                /\ end_date' = ShiftDays(t, days_ahead)
                /\ pc' = "predicate"
                /\ UNCHANGED <<stderr, exitCode>>
    /\ UNCHANGED <<argv, calendars, storeEvents, calendar_name, days_back,
                   days_ahead, storeCreated, cb, enumerated, target_cal,
                   predicate, events, result, stdout>>

\* lines 47-53
BuildPredicate ==
    /\ pc = "predicate"
    /\ predicate' = [start |-> Timestamp(start_date), end |-> Timestamp(end_date),
                     calendars |-> <<target_cal>>]
    /\ pc' = "fetch"
    /\ UNCHANGED <<argv, calendars, storeEvents, calendar_name, days_back,
                   days_ahead, storeCreated, cb, enumerated, target_cal, now,
                   start_date, end_date, events, result, stdout, stderr, exitCode>>

\* line 56
FetchEvents ==
    /\ pc = "fetch"
    /\ events' = eventsMatchingPredicate(predicate)
    /\ pc' = "convert"
    /\ UNCHANGED <<argv, calendars, storeEvents, calendar_name, days_back,
                   days_ahead, storeCreated, cb, enumerated, target_cal, now,
                   start_date, end_date, predicate, result, stdout, stderr,
                   exitCode>>

\* lines 59-75
ConvertEvents ==
    /\ pc = "convert"
    /\ result' = ConvertAll(events, calendars[target_cal])
    /\ pc' = "print"
    /\ UNCHANGED <<argv, calendars, storeEvents, calendar_name, days_back,
                   days_ahead, storeCreated, cb, enumerated, target_cal, now,
                   start_date, end_date, predicate, events, stdout, stderr,
                   exitCode>>

\* line 77, then main() returns and the process exits with status 0
PrintResult ==
    /\ pc = "print"
    /\ stdout' = Append(stdout, JsonArray(result))
    /\ exitCode' = 0
    /\ pc' = "done"
    /\ UNCHANGED <<argv, calendars, storeEvents, calendar_name, days_back,
                   days_ahead, storeCreated, cb, enumerated, target_cal, now,
                   start_date, end_date, predicate, events, result, stderr>>

\* the steps of main()
MainStep ==
    \/ CheckArgs
    \/ ParseArgs
    \/ CreateStore
    \/ RequestAccess
    \/ FindCalendar
    \/ ComputeDates
    \/ BuildPredicate
    \/ FetchEvents
    \/ ConvertEvents
    \/ PrintResult

Next ==
    \/ MainStep
    \/ \E granted \in BOOLEAN : access_callback(granted)

Spec == Init /\ [][Next]_vars

----------------------------------------------------------------------------
(* Properties *)

\* C1 as stated: with at least three arguments and no calendar of the
\* requested name, the run ends with exactly the not-found object on standard
\* output and exit code 1, whatever the days_back and days_ahead arguments are.
C1_NotFoundWhateverArgs ==
    (/\ pc = "done"
     /\ Len(argv) >= 4
     /\ \A i \in 1..Len(calendars) : calendars[i].title # argv[2])
    => /\ Len(stdout) = 1
       /\ stdout[1].kind = "object"
       /\ stdout[1].value = [error |-> "Calendar '" \o argv[2] \o "' not found"]
       /\ exitCode = 1

\* C1 amended: the same, for the invocations whose days_back and days_ahead
\* arguments are both valid integers (of any value).
C1_NotFoundValidArgs ==
    (/\ pc = "done"
     /\ Len(argv) >= 4
     /\ argv[3] \in {"0", "1", "-1", " 2", "+1", "1_0", "900000", "1000000000"}
     /\ argv[4] \in {"0", "1", "-1", " 2", "+1", "1_0", "900000", "1000000000"}
     /\ \A i \in 1..Len(calendars) : calendars[i].title # argv[2])
    => /\ Len(stdout) = 1
       /\ stdout[1].kind = "object"
       /\ stdout[1].value = [error |-> "Calendar '" \o argv[2] \o "' not found"]
       /\ exitCode = 1

\* a finished not-found run whose day arguments are far outside the range of dates
C1_Witness ==
    /\ pc = "done"
    /\ Len(argv) >= 4
    /\ argv[3] = "1000000000"
    /\ argv[4] = "900000"
    /\ Len(calendars) > 0
    /\ \A i \in 1..Len(calendars) : calendars[i].title # argv[2]
    /\ Len(stdout) = 1
    /\ exitCode = 1

\* C2: with fewer than three arguments the run ends at once with the usage
\* message on standard error and exit code 1, writes nothing to standard
\* output, and never parses an integer, creates the store, requests
\* authorization, enumerates calendars or queries events.
C2_UsageOnly ==
    Len(argv) < 4 =>
        /\ pc \in {"args", "done"}
        /\ stdout = <<>>
        /\ calendar_name = NULL /\ days_back = NoInt /\ days_ahead = NoInt
        /\ ~storeCreated
        /\ cb = "none"
        /\ ~enumerated
        /\ predicate = NoPredicate /\ events = <<>>
        /\ pc = "done" =>
            /\ stderr = <<"Usage: fetch-events.py <calendar_name> <days_back> <days_ahead>">>
            /\ exitCode = 1

\* a finished run that was given two arguments
C2_Witness ==
    /\ Len(argv) = 3
    /\ pc = "done"
    /\ exitCode = 1
    /\ Len(stderr) = 1

\* C3 as stated: every finished run has printed exactly one JSON value.
C3_ExactlyOneValue == pc = "done" => Len(stdout) = 1

\* C3 amended: a run never prints more than one JSON value; a finished run
\* has printed exactly one, the success array with exit code 0 or the
\* not-found object with exit code 1, when it wrote nothing to standard
\* error, and none when it ended with the usage message or an uncaught error.
C3_AtMostOneValue ==
    /\ Len(stdout) <= 1
    /\ pc = "done" =>
        /\ Len(stdout) = 1 <=> stderr = <<>>
        /\ Len(stdout) = 0 <=> Len(stderr) = 1
        /\ Len(stdout) = 1 =>
            \/ stdout[1].kind = "array" /\ exitCode = 0
            \/ /\ stdout[1].kind = "object"
               /\ DOMAIN stdout[1].value = {"error"}
               /\ exitCode = 1
        /\ Len(stdout) = 0 => exitCode = 1
        /\ Len(argv) < 4 => Len(stdout) = 0
        /\ (Len(argv) >= 4 /\ {argv[3], argv[4]} \cap {"x", "", "1.5", "-"} # {})
               => Len(stdout) = 0

\* a finished run that printed the not-found object and nothing else
C3_Witness ==
    /\ pc = "done"
    /\ Len(stdout) = 1
    /\ stdout[1].kind = "object"
    /\ stderr = <<>>
    /\ Len(calendars) = 1

\* C4: every element of the printed array has the nine keys, and title,
\* location, notes and url are "" exactly when the store's value is absent
\* or empty and are the store's value otherwise.
C4_NineKeysAndDefaults ==
    (pc = "done" /\ exitCode = 0) =>
        LET out == stdout[1].value
            FieldOk(o, v) == /\ o = "" <=> v \in {NULL, ""}
                             /\ v \notin {NULL, ""} => o = v
        IN  /\ Len(out) = Len(events)
            /\ \A i \in 1..Len(out) :
                /\ DOMAIN out[i] = {"id", "title", "startDate", "endDate", "isAllDay",
                                    "location", "notes", "url", "calendar"}
                /\ FieldOk(out[i].title, events[i].title)
                /\ FieldOk(out[i].location, events[i].location)
                /\ FieldOk(out[i].notes, events[i].notes)
                /\ FieldOk(out[i].url, IF events[i].URL.nil THEN NULL
                                       ELSE events[i].URL.absoluteString)

\* a printed event whose title is absent, whose location is empty and whose
\* notes and URL are set
C4_Witness ==
    /\ pc = "done"
    /\ exitCode = 0
    /\ Len(events) = 1
    /\ events[1].title = NULL
    /\ events[1].location = ""
    /\ events[1].notes = "bring cake"
    /\ ~events[1].URL.nil
    /\ events[1].URL.absoluteString # ""
    /\ stdout[1].value[1].title = ""

\* C5: the printed array has one record per event the store returned for the
\* predicate of the single matched calendar and the window, in the same order:
\* nothing dropped, duplicated, reordered or taken from another calendar.
C5_OneToOneInOrder ==
    (pc = "done" /\ exitCode = 0) =>
        LET out == stdout[1].value
            InWindow(e) == /\ e.calendar = target_cal
                           /\ e.endDate >= predicate.start
                           /\ e.startDate <= predicate.end
        IN  /\ predicate.calendars = <<target_cal>>
            /\ predicate.start = Timestamp(start_date)
            /\ predicate.end = Timestamp(end_date)
            /\ events = SelectSeq(storeEvents, InWindow)
            /\ Len(out) = Len(events)
            /\ \A i \in 1..Len(out) :
                /\ out[i].id = events[i].id
                /\ out[i].startDate = events[i].startDate
                /\ out[i].endDate = events[i].endDate
                /\ out[i].isAllDay = events[i].isAllDay
                /\ out[i].calendar.title = calendars[events[i].calendar].title
            /\ \A i, j \in 1..Len(out) : out[i].id = out[j].id => i = j

\* two different events printed in the store's order while the store also
\* holds an event of another calendar
C5_Witness ==
    /\ pc = "done"
    /\ exitCode = 0
    /\ Len(storeEvents) = 3
    /\ Len(stdout[1].value) = 2
    /\ stdout[1].value[1].id = "E1"
    /\ stdout[1].value[2].id = "E3"
    /\ stdout[1].value[1].startDate # stdout[1].value[2].startDate

C7_InvalidInteger ==
    (Len(argv) >= 4 /\ {argv[3], argv[4]} \cap {"x", "", "1.5", "-"} # {}) =>
        /\ pc \in {"args", "parse", "done"}
        /\ stdout = <<>>
        /\ ~storeCreated
        /\ cb = "none"
        /\ ~enumerated
        /\ target_cal = NoCal /\ predicate = NoPredicate /\ events = <<>>
        /\ pc = "done" =>
            /\ exitCode = 1
            /\ stderr = <<"Traceback: ValueError">>

\* a finished run with an invalid days_ahead and no calendar of that name
C7_Witness ==
    /\ pc = "done"
    /\ Len(argv) >= 4
    /\ argv[3] = "1"
    /\ argv[4] = "1.5"
    /\ \A i \in 1..Len(calendars) : calendars[i].title # argv[2]
    /\ exitCode = 1

\* C8: the lookup selects the lowest-indexed calendar whose title equals the
\* requested name exactly; that calendar is the one queried and the one whose
\* source is printed; the not-found branch is taken exactly when no calendar
\* has that title.
C8_FirstExactMatch ==
    enumerated =>
        LET hits == {i \in 1..Len(calendars) : calendars[i].title = calendar_name}
        IN  /\ target_cal = NoCal <=> hits = {}
            /\ target_cal # NoCal =>
                /\ target_cal \in hits
                /\ \A j \in hits : target_cal <= j
            /\ (Len(stdout) = 1 /\ stdout[1].kind = "object") <=> hits = {}
            /\ predicate # NoPredicate => predicate.calendars = <<target_cal>>
            /\ (pc = "done" /\ exitCode = 0) =>
                \A i \in 1..Len(stdout[1].value) :
                    /\ stdout[1].value[i].calendar.title = calendar_name
                    /\ stdout[1].value[i].calendar.source =
                          IF calendars[target_cal].source = NULL THEN "Unknown"
                          ELSE calendars[target_cal].source

\* two calendars of the requested name with different sources, and an event
\* printed with the source of the first
C8_Witness ==
    /\ pc = "done"
    /\ exitCode = 0
    /\ Len(calendars) = 2
    /\ calendars[1].title = calendar_name
    /\ calendars[2].title = calendar_name
    /\ calendars[1].source # calendars[2].source
    /\ Len(stdout[1].value) > 0
    /\ stdout[1].value[1].calendar.source = "iCloud"

\* C9: once authorization is requested the main flow can always take its next
\* step, whatever the state of the callback; the callback changes no program
\* state; and standard output and the exit code of a finished run are
\* determined by the command line, the store's contents and the clock reading
\* alone, whenever and with whatever result the callback fires, or if it
\* never does.
C9_FireAndForget ==
    /\ []((cb # "none" /\ pc # "done") => ENABLED MainStep)
    /\ [][(cb = "pending" /\ cb' # "pending") =>
            UNCHANGED <<argv, calendars, storeEvents, pc, calendar_name, days_back,
                        days_ahead, storeCreated, enumerated, target_cal, now,
                        start_date, end_date, predicate, events, result, stdout,
                        stderr, exitCode>>]_vars
    /\ [](pc = "done" =>
            LET first == ScanCalendars(calendars, argv[2], 1)
                window == [start |-> Timestamp(ShiftDays(now, 0 - days_back)),
                           end |-> Timestamp(ShiftDays(now, days_ahead)),
                           calendars |-> <<first>>]
            IN  IF Len(argv) < 4 \/ ~ParseInt(argv[3]).ok \/ ~ParseInt(argv[4]).ok
                THEN stdout = <<>> /\ exitCode = 1
                ELSE IF first = NoCal
                THEN stdout = <<JsonObject(NotFoundObject(argv[2]))>> /\ exitCode = 1
                ELSE IF ShiftOverflows(now, 0 - days_back) \/ ShiftOverflows(now, days_ahead)
                THEN stdout = <<>> /\ exitCode = 1
                ELSE /\ exitCode = 0
                     /\ stdout = <<JsonArray(ConvertAll(eventsMatchingPredicate(window),
                                                        calendars[first]))>>)

\* events printed with exit code 0 although the callback reported a denial
C9_Witness ==
    /\ pc = "done"
    /\ exitCode = 0
    /\ cb = "denied"
    /\ Len(stdout[1].value) > 0

\* C10: the clock is read once and only after a calendar was matched; start is
\* now - days_back days and end is now + days_ahead days, so end - start is
\* days_back + days_ahead days, start <= now <= end for non-negative
\* arguments, and start = end = now when both are 0.
C10_Window ==
    /\ now # NoTime =>
        /\ enumerated
        /\ target_cal # NoCal
        /\ calendars[target_cal].title = calendar_name
    /\ end_date # NoTime =>
        /\ start_date = now - days_back * 24
        /\ end_date = now + days_ahead * 24
        /\ end_date - start_date = (days_back + days_ahead) * 24
        /\ (days_back >= 0 /\ days_ahead >= 0) =>
              (start_date <= now /\ now <= end_date)
        /\ (days_back = 0 /\ days_ahead = 0) =>
              (start_date = now /\ end_date = now)
    /\ predicate # NoPredicate =>
        /\ end_date # NoTime
        /\ (days_back >= 0 /\ days_ahead >= 0) => predicate.start <= predicate.end

\* a finished query whose window has collapsed to the instant now
C10_Witness ==
    /\ pc = "done"
    /\ exitCode = 0
    /\ days_back = 0
    /\ days_ahead = 0
    /\ start_date = now
    /\ end_date = now
    /\ predicate.start = predicate.end
    /\ Len(stdout[1].value) > 0

====
